---- MODULE Spec2Model ----
(***************************************************************************)
(* State-machine model of the two ink! contracts of the repository:        *)
(*   src/wasm/psp22/lib.rs            Token           (Fungible Ledger)    *)
(*   src/wasm/resource_market/lib.rs  ResourceMarket  (Resource Pool)      *)
(* Every message is one atomic action (the host serialises calls).  A call *)
(* that panics traps: the host discards the storage writes of that call,   *)
(* so the contract state is left as before; `last.dirty` records whether   *)
(* a write had already been made when the panic was raised.                *)
(***************************************************************************)
EXTENDS Integers, Sequences, FiniteSets, TLC

\* AccountId values used as callers and arguments.
Account == {"alice", "bob"}

\* Accounts named as `spender` in the allowance messages (any account may
\* still call transfer_from; without an entry it is not authorised).
Spender == {"bob"}

\* enum Resource
Resource == {"Food", "Water", "Wood"}

\* Largest Balance (u128) value, scaled down so that saturation is reachable.
U128_MAX == 2

\* Largest u64 value, scaled down so that overflow is reachable.
U64_MAX == 2

\* Cap on the recorded history (contributions minus withdrawals) of an account.
MaxNet == 3

VARIABLES
    contract,         \* which of the two contracts this instance is
    total_supply,     \* Token.total_supply
    balances,         \* Token.balances      : Mapping<AccountId, Balance>
    allowances,       \* Token.allowances    : Mapping<(AccountId, AccountId), Balance>
    food,             \* ResourceMarket.food
    water,            \* ResourceMarket.water
    wood,             \* ResourceMarket.wood
    credits,          \* ResourceMarket.credits : Mapping<AccountId, u64>
    overflow_checks,  \* build profile: TRUE = u64 `+`/`-` panic on overflow, FALSE = they wrap
    net,              \* history: per account, amounts successfully contributed minus withdrawn
    initial_stock,    \* history: food + water + wood as given to ResourceMarket::new
    last              \* the last call: message, caller, arguments, result, events it emitted

tokenVars  == <<total_supply, balances, allowances>>
marketVars == <<food, water, wood, credits, overflow_checks>>
vars       == <<contract, total_supply, balances, allowances, food, water, wood, credits,
                overflow_checks, net, initial_stock, last>>

----------------------------------------------------------------------------
(* ink::storage::Mapping: a partial function from keys to values.          *)

EmptyMap == [k \in {} |-> 0]

contains(m, k) == k \in DOMAIN m

insert(m, k, v) == [x \in (DOMAIN m) \cup {k} |-> IF x = k THEN v ELSE m[x]]

\* Mapping::get(k).unwrap_or(d)
unwrap_or(m, k, d) == IF k \in DOMAIN m THEN m[k] ELSE d

\* Mapping::get(k).expect(..): a value, or the panic of a missing entry
expect(m, k) ==
    IF k \in DOMAIN m THEN [panic |-> FALSE, value |-> m[k]]
                      ELSE [panic |-> TRUE,  value |-> 0]

\* All mappings from a subset of keys K to values V.
Maps(K, V) == UNION {[D -> V] : D \in SUBSET K}

----------------------------------------------------------------------------
(* Integer arithmetic of the two widths.                                   *)

\* Balance::saturating_add
saturating_add(a, b) == IF a + b > U128_MAX THEN U128_MAX ELSE a + b

\* Balance::saturating_sub and u64::saturating_sub
saturating_sub(a, b) == IF a < b THEN 0 ELSE a - b

\* u64::saturating_add
saturating_add_u64(a, b) == IF a + b > U64_MAX THEN U64_MAX ELSE a + b

\* u64 `a + b` / `a += b`: overflows when the sum does not fit
add_overflows(a, b) == a + b > U64_MAX
wrapping_add(a, b)  == (a + b) % (U64_MAX + 1)

\* u64 `a - b`: overflows when b > a
sub_overflows(a, b) == a < b
wrapping_sub(a, b)  == (a - b + (U64_MAX + 1)) % (U64_MAX + 1)

----------------------------------------------------------------------------
(* Events and the record of the last call.                                 *)

Approval(owner, spender, amount) ==
    [type |-> "Approval", owner |-> owner, spender |-> spender, amount |-> amount]

Transfer(from, to, value) ==
    [type |-> "Transfer", from |-> from, to |-> to, value |-> value]

ContributionReceived(sender, amount, resource, total_resource_available, total_credits_available) ==
    [type |-> "ContributionReceived", sender |-> sender, amount |-> amount,
     resource |-> resource,
     total_resource_available |-> total_resource_available,
     total_credits_available |-> total_credits_available]

ResourceWithdrawn(sender, amount, resource, total_resource_available, total_credits_available) ==
    [type |-> "ResourceWithdrawn", sender |-> sender, amount |-> amount,
     resource |-> resource,
     total_resource_available |-> total_resource_available,
     total_credits_available |-> total_credits_available]

\* op: the message; from/to: its account arguments (owner/spender for the
\* allowance messages); value: its amount; result: "Ok", a business error,
\* or "Panic"; events: what the call emitted; dirty: a write preceded a panic.
Call(op, caller, from, to, value, resource, result, events, dirty) ==
    [op |-> op, caller |-> caller, from |-> from, to |-> to, value |-> value,
     resource |-> resource, result |-> result, events |-> events, dirty |-> dirty]

NoCall == Call("new", "-", "-", "-", 0, "-", "Ok", <<>>, FALSE)

BusinessErrors == {"InsufficientBalance", "InsufficientAllowance",
                   "InsufficientResources", "InsufficientCredits"}

----------------------------------------------------------------------------
(* Token (psp22)                                                           *)

\* Token::new(total_supply): both mappings start empty.
Token_new(supply) ==
    /\ total_supply = supply
    /\ balances = EmptyMap
    /\ allowances = EmptyMap

\* fn balance_of(&self, owner): the balance, or a panic when there is no entry
balance_of(owner) == expect(balances, owner)

\* fn allowance(&self, owner, spender)
allowance(owner, spender) == expect(allowances, <<owner, spender>>)

\* The market is not touched by a Token message.
MarketIdle == UNCHANGED <<marketVars, net, initial_stock>>

\* Outcome of a message: result, the state it leaves, the events it emitted.
TokenOutcome(result, bal, allow, events, dirty) ==
    [result |-> result, balances |-> bal, allowances |-> allow,
     events |-> events, dirty |-> dirty]

TokenRejected(result) == TokenOutcome(result, balances, allowances, <<>>, FALSE)

\* approve as it would be with the key written as (spender, caller).
approve_outcome_swapped_key(caller, spender, amount) ==
    TokenOutcome("Ok", balances, insert(allowances, <<spender, caller>>, amount),
                 <<>>, FALSE)

\* approve as it would be if it added `amount` to the allowance already there.
approve_outcome_additive(caller, spender, amount) ==
    TokenOutcome("Ok", balances,
                 insert(allowances, <<caller, spender>>,
                        saturating_add(unwrap_or(allowances, <<caller, spender>>, 0),
                                       amount)),
                 <<>>, FALSE)

\* fn approve(&mut self, spender, amount)
approve_outcome(caller, spender, amount) ==
    TokenOutcome("Ok", balances, insert(allowances, <<caller, spender>>, amount),
                 <<>>, FALSE)

\* increase_allowance as it would be with a wrapping `prev + by`.
increase_allowance_outcome_wrapping(caller, spender, by) ==
    LET prev == expect(allowances, <<caller, spender>>) IN
    IF prev.panic THEN TokenRejected("Panic")
    ELSE TokenOutcome("Ok", balances,
                      insert(allowances, <<caller, spender>>,
                             (prev.value + by) % (U128_MAX + 1)),
                      <<>>, FALSE)

\* fn increase_allowance(&mut self, spender, by)
increase_allowance_outcome(caller, spender, by) ==
    LET prev == expect(allowances, <<caller, spender>>) IN
    IF prev.panic THEN TokenRejected("Panic")
    ELSE TokenOutcome("Ok", balances,
                      insert(allowances, <<caller, spender>>,
                             saturating_add(prev.value, by)),
                      <<>>, FALSE)

\* fn decrease_allowance(&mut self, spender, by)
decrease_allowance_outcome(caller, spender, by) ==
    LET prev == expect(allowances, <<caller, spender>>) IN
    IF prev.panic THEN TokenRejected("Panic")
    ELSE TokenOutcome("Ok", balances,
                      insert(allowances, <<caller, spender>>,
                             saturating_sub(prev.value, by)),
                      <<>>, FALSE)

\* transfer as it would be with a missing balance of the caller read as zero.
transfer_outcome_default_zero(caller, to, value) ==
    LET caller_balance == unwrap_or(balances, caller, 0) IN
    IF caller_balance < value THEN TokenRejected("InsufficientBalance")
    ELSE TokenOutcome("Ok",
            insert(insert(balances, caller,
                          saturating_sub(caller_balance, value)),
                   to, value),
            allowances,
            <<Transfer(caller, to, value)>>, FALSE)

\* fn transfer(&mut self, to, value, data)
transfer_outcome(caller, to, value) ==
    LET caller_balance == balance_of(caller) IN
    IF caller_balance.panic THEN TokenRejected("Panic")
    ELSE IF caller_balance.value < value THEN TokenRejected("InsufficientBalance")
    ELSE TokenOutcome("Ok",
            insert(insert(balances, caller,
                          saturating_sub(caller_balance.value, value)),
                   to, value),
            allowances,
            <<Transfer(caller, to, value)>>, FALSE)

\* transfer_from as it would be with the balance of `from` read before the
\* allowance is compared with `value`.
transfer_from_outcome_balance_first(caller, from, to, value) ==
    IF ~contains(allowances, <<from, caller>>) THEN TokenRejected("Panic")
    ELSE
    LET allowance_value == expect(allowances, <<from, caller>>).value
        balance == expect(balances, from)
    IN
    IF balance.panic THEN TokenRejected("Panic")
    ELSE IF balance.value < value THEN TokenRejected("InsufficientBalance")
    ELSE IF allowance_value < value THEN TokenRejected("InsufficientAllowance")
    ELSE TokenOutcome("Ok",
            insert(insert(balances, from, saturating_sub(balance.value, value)),
                   to, saturating_add(balance.value, value)),
            insert(allowances, <<from, caller>>,
                   saturating_sub(allowance_value, value)),
            <<Approval(from, caller, value)>>, FALSE)

\* fn transfer_from(&mut self, from, to, value, data)
transfer_from_outcome(caller, from, to, value) ==
    IF ~contains(allowances, <<from, caller>>) THEN TokenRejected("Panic")
    ELSE
    LET allowance_value == expect(allowances, <<from, caller>>).value IN
    IF allowance_value < value THEN TokenRejected("InsufficientAllowance")
    ELSE
    LET balance == expect(balances, from) IN
    IF balance.panic THEN TokenRejected("Panic")
    ELSE IF balance.value < value THEN TokenRejected("InsufficientBalance")
    ELSE TokenOutcome("Ok",
            insert(insert(balances, from, saturating_sub(balance.value, value)),
                   to, saturating_add(balance.value, value)),
            insert(allowances, <<from, caller>>,
                   saturating_sub(allowance_value, value)),
            <<Approval(from, caller, value)>>, FALSE)

\* A Token message applied to the storage.
TokenCall(op, caller, from, to, value, r) ==
    /\ contract = "psp22"
    /\ balances' = r.balances
    /\ allowances' = r.allowances
    /\ last' = Call(op, caller, from, to, value, "-", r.result, r.events, r.dirty)
    /\ UNCHANGED <<contract, total_supply>>
    /\ MarketIdle

approve(caller, spender, amount) ==
    TokenCall("approve", caller, caller, spender, amount,
              approve_outcome(caller, spender, amount))

increase_allowance(caller, spender, by) ==
    TokenCall("increase_allowance", caller, caller, spender, by,
              increase_allowance_outcome(caller, spender, by))

decrease_allowance(caller, spender, by) ==
    TokenCall("decrease_allowance", caller, caller, spender, by,
              decrease_allowance_outcome(caller, spender, by))

transfer(caller, to, value) ==
    TokenCall("transfer", caller, caller, to, value,
              transfer_outcome(caller, to, value))

transfer_from(caller, from, to, value) ==
    TokenCall("transfer_from", caller, from, to, value,
              transfer_from_outcome(caller, from, to, value))

Balance == 0..U128_MAX

TokenNext ==
    \/ \E c \in Account, s \in Spender, v \in Balance : approve(c, s, v)
    \/ \E c \in Account, s \in Spender, v \in Balance : increase_allowance(c, s, v)
    \/ \E c \in Account, s \in Spender, v \in Balance : decrease_allowance(c, s, v)
    \/ \E c \in Account, t \in Account, v \in Balance : transfer(c, t, v)
    \/ \E c \in Account, f \in Account, t \in Account, v \in Balance :
          transfer_from(c, f, t, v)

\* The market part of the state while only the Token is exercised.
MarketAbsent ==
    /\ food = 0 /\ water = 0 /\ wood = 0
    /\ credits = EmptyMap
    /\ overflow_checks = TRUE
    /\ net = [a \in Account |-> 0]
    /\ initial_stock = 0
\* sum of all balances
RECURSIVE SumOver(_, _)
SumOver(m, keys) ==
    IF keys = {} THEN 0
    ELSE LET k == CHOOSE x \in keys : TRUE IN m[k] + SumOver(m, keys \ {k})

SumBalances(m) == SumOver(m, DOMAIN m)

\* A freshly constructed Token.
TokenInit ==
    /\ contract = "psp22"
    /\ \E supply \in Balance : Token_new(supply)
    /\ MarketAbsent
    /\ last = NoCall

SpecToken == TokenInit /\ [][TokenNext]_vars

\* A ledger whose balances are already populated and conserved:
\* sum of all balances <= total_supply.
LedgerInit ==
    /\ contract = "psp22"
    /\ total_supply \in Balance
    /\ balances \in Maps(Account, Balance)
    /\ SumBalances(balances) <= total_supply
    /\ allowances = EmptyMap
    /\ MarketAbsent
    /\ last = NoCall

SpecLedger == LedgerInit /\ [][TokenNext]_vars

----------------------------------------------------------------------------
(* ResourceMarket (resource_market)                                        *)

U64 == 0..U64_MAX

\* ResourceMarket::new(food, water, wood): the credits mapping starts empty.
ResourceMarket_new(f, w, d) ==
    /\ food = f
    /\ water = w
    /\ wood = d
    /\ credits = EmptyMap

\* match resource { Food => f, Water => w, Wood => d }
level_of(resource, f, w, d) ==
    CASE resource = "Food"  -> f
      [] resource = "Water" -> w
      [] resource = "Wood"  -> d

\* fn get_resource(&self, resource)
get_resource(resource) == level_of(resource, food, water, wood)

\* The Token is not touched by a market message.
TokenIdle == UNCHANGED tokenVars

\* Outcome of a message: result, the level it leaves for the resource of the
\* call, the credits it leaves, the events it emitted.
MarketOutcome(result, level, cred, events, dirty) ==
    [result |-> result, level |-> level, credits |-> cred,
     events |-> events, dirty |-> dirty]

\* fn contribute(&mut self, amount, resource); level is self.<resource>
contribute_outcome(caller, amount, resource, level) ==
    IF add_overflows(level, amount) /\ overflow_checks
    THEN MarketOutcome("Panic", level, credits, <<>>, FALSE)
    ELSE
    LET new_level == wrapping_add(level, amount)
        old_balance == unwrap_or(credits, caller, 0)
        total_resources == new_level
        sender_available_credits == saturating_add_u64(old_balance, amount)
    IN  MarketOutcome("Ok", new_level,
            insert(credits, caller, saturating_add_u64(old_balance, amount)),
            <<ContributionReceived(caller, amount, resource, total_resources,
                                   sender_available_credits)>>,
            FALSE)

\* withdraw as it would be with the level written before the credits are
\* compared with `amount`.
withdraw_outcome_writes_first(caller, amount, resource, level) ==
    IF level < amount
    THEN MarketOutcome("InsufficientResources", level, credits, <<>>, FALSE)
    ELSE
    LET new_level == saturating_sub(level, amount)
        caller_credits == unwrap_or(credits, caller, 0)
    IN
    IF caller_credits < amount
    THEN MarketOutcome("InsufficientCredits", new_level, credits, <<>>, FALSE)
    ELSE
    LET new_credits == insert(credits, caller,
                              saturating_sub(caller_credits, amount))
    IN  IF sub_overflows(new_level, amount) /\ overflow_checks
        THEN MarketOutcome("Panic", level, credits, <<>>, TRUE)
        ELSE MarketOutcome("Ok", new_level, new_credits,
                <<ResourceWithdrawn(caller, amount, resource,
                                    wrapping_sub(new_level, amount),
                                    caller_credits - amount)>>,
                FALSE)

\* withdraw as it would be with the credits compared before the level.
withdraw_outcome_credits_first(caller, amount, resource, level) ==
    LET caller_credits == unwrap_or(credits, caller, 0) IN
    IF caller_credits < amount
    THEN MarketOutcome("InsufficientCredits", level, credits, <<>>, FALSE)
    ELSE IF level < amount
    THEN MarketOutcome("InsufficientResources", level, credits, <<>>, FALSE)
    ELSE
    LET new_level == saturating_sub(level, amount)
        new_credits == insert(credits, caller,
                              saturating_sub(caller_credits, amount))
    IN  IF sub_overflows(new_level, amount) /\ overflow_checks
        THEN MarketOutcome("Panic", level, credits, <<>>, TRUE)
        ELSE MarketOutcome("Ok", new_level, new_credits,
                <<ResourceWithdrawn(caller, amount, resource,
                                    wrapping_sub(new_level, amount),
                                    caller_credits - amount)>>,
                FALSE)

\* withdraw as it would be without the comparison of the credits with `amount`.
withdraw_outcome_credits_unchecked(caller, amount, resource, level) ==
    IF level < amount
    THEN MarketOutcome("InsufficientResources", level, credits, <<>>, FALSE)
    ELSE
    LET caller_credits == unwrap_or(credits, caller, 0)
        new_level == saturating_sub(level, amount)
        new_credits == insert(credits, caller,
                              saturating_sub(caller_credits, amount))
    IN  IF (sub_overflows(new_level, amount) \/ sub_overflows(caller_credits, amount))
           /\ overflow_checks
        THEN MarketOutcome("Panic", level, credits, <<>>, TRUE)
        ELSE MarketOutcome("Ok", new_level, new_credits,
                <<ResourceWithdrawn(caller, amount, resource,
                                    wrapping_sub(new_level, amount),
                                    wrapping_sub(caller_credits, amount))>>,
                FALSE)

\* fn withdraw(&mut self, amount, resource): one arm of the match; level is
\* self.<resource>.  The event is built after both writes, from the level
\* as already written (`self.food - amount`) and from the credits as read.
withdraw_outcome(caller, amount, resource, level) ==
    IF level < amount
    THEN MarketOutcome("InsufficientResources", level, credits, <<>>, FALSE)
    ELSE
    LET caller_credits == unwrap_or(credits, caller, 0) IN
    IF caller_credits < amount
    THEN MarketOutcome("InsufficientCredits", level, credits, <<>>, FALSE)
    ELSE
    LET new_level == saturating_sub(level, amount)
        new_credits == insert(credits, caller,
                              saturating_sub(caller_credits, amount))
    IN  IF sub_overflows(new_level, amount) /\ overflow_checks
        THEN MarketOutcome("Panic", level, credits, <<>>, TRUE)
        ELSE MarketOutcome("Ok", new_level, new_credits,
                <<ResourceWithdrawn(caller, amount, resource,
                                    wrapping_sub(new_level, amount),
                                    caller_credits - amount)>>,
                FALSE)

\* The storage update as it would be with the Water arm writing self.food.
MarketCall_water_arm_writes_food(op, caller, amount, resource, r) ==
    /\ contract = "resource_market"
    /\ food'  = IF resource \in {"Food", "Water"} THEN r.level ELSE food
    /\ water' = water
    /\ wood'  = IF resource = "Wood"  THEN r.level ELSE wood
    /\ credits' = r.credits
    /\ last' = Call(op, caller, caller, caller, amount, resource, r.result,
                    r.events, r.dirty)
    /\ UNCHANGED <<contract, overflow_checks, initial_stock>>
    /\ TokenIdle

\* A market message applied to the storage.
MarketCall(op, caller, amount, resource, r) ==
    /\ contract = "resource_market"
    /\ food'  = IF resource = "Food"  THEN r.level ELSE food
    /\ water' = IF resource = "Water" THEN r.level ELSE water
    /\ wood'  = IF resource = "Wood"  THEN r.level ELSE wood
    /\ credits' = r.credits
    /\ last' = Call(op, caller, caller, caller, amount, resource, r.result,
                    r.events, r.dirty)
    /\ UNCHANGED <<contract, overflow_checks, initial_stock>>
    /\ TokenIdle

contribute(caller, amount, resource) ==
    MarketCall("contribute", caller, amount, resource,
               contribute_outcome(caller, amount, resource, get_resource(resource)))

withdraw(caller, amount, resource) ==
    MarketCall("withdraw", caller, amount, resource,
               withdraw_outcome(caller, amount, resource, get_resource(resource)))

MarketNext ==
    \/ \E c \in Account, a \in U64, r \in Resource :
          contribute(c, a, r) /\ UNCHANGED net
    \/ \E c \in Account, a \in U64, r \in Resource :
          withdraw(c, a, r) /\ UNCHANGED net

\* The Token part of the state while only the market is exercised.
TokenAbsent ==
    /\ total_supply = 0
    /\ balances = EmptyMap
    /\ allowances = EmptyMap

\* A freshly constructed ResourceMarket, built with or without overflow checks.
MarketInit ==
    /\ contract = "resource_market"
    /\ \E f \in U64, w \in U64, d \in U64 : ResourceMarket_new(f, w, d)
    /\ overflow_checks \in BOOLEAN
    /\ net = [a \in Account |-> 0]
    /\ initial_stock = 0
    /\ TokenAbsent
    /\ last = NoCall

SpecMarket == MarketInit /\ [][MarketNext]_vars

\* A freshly constructed ResourceMarket with the stock it was given recorded
\* beside it.
SolvencyInit ==
    /\ contract = "resource_market"
    /\ \E f \in U64, w \in U64, d \in U64 : ResourceMarket_new(f, w, d)
    /\ overflow_checks \in BOOLEAN
    /\ net = [a \in Account |-> 0]
    /\ initial_stock = food + water + wood
    /\ TokenAbsent
    /\ last = NoCall

SpecSolvency == SolvencyInit /\ [][MarketNext]_vars

\* sum of the credits of all accounts
SumCredits(m) == SumOver(m, DOMAIN m)

\* The market with the history of each account kept beside it: the call just
\* made (last') adds its amount when it is a successful contribution and
\* takes it off when it is a successful withdrawal.
Recorded(caller, sign, amount) ==
    /\ net[caller] + sign * amount <= MaxNet
    /\ net' = IF last'.result = "Ok"
              THEN [net EXCEPT ![caller] = @ + sign * amount]
              ELSE net

HistoryNext ==
    \/ \E c \in Account, a \in U64, r \in Resource :
          contribute(c, a, r) /\ Recorded(c, 1, a)
    \/ \E c \in Account, a \in U64, r \in Resource :
          withdraw(c, a, r) /\ Recorded(c, -1, a)

SpecHistory == MarketInit /\ [][HistoryNext]_vars

\* Either contract, from a conserved ledger or from a fresh market.
Init == LedgerInit \/ MarketInit

Next == TokenNext \/ MarketNext

Spec == Init /\ [][Next]_vars

----------------------------------------------------------------------------
(* The calls, as the claims speak of them: `last'` is the call a step makes,*)
(* the unprimed variables are the state before it, the primed ones after.  *)

\* l records the Token message op
IsTokenCall(l, op) == l.op = op

\* l records the market message op
IsMarketCall(l, op) == l.op = op

----------------------------------------------------------------------------
(* Fungible Ledger                                                         *)

\* C1: from a ledger whose balances sum to at most total_supply, after any
\* sequence of transfer and transfer_from calls the sum of all balances is
\* still at most total_supply and no balance is below zero.
C1_Conservation ==
    /\ SumBalances(balances) <= total_supply
    /\ \A a \in DOMAIN balances : balances[a] >= 0

\* C2: a successful transfer_from(from, to, value) by c with from # to lowers
\* allowance(from, c) by exactly value, lowers the balance of from by exactly
\* value and raises the balance of to by exactly value.
C2_TransferFromExact ==
    [][LET c == last'.caller
           f == last'.from
           t == last'.to
           v == last'.value
       IN (IsTokenCall(last', "transfer_from") /\ last'.result = "Ok" /\ f # t)
          => /\ allowances'[<<f, c>>] = allowances[<<f, c>>] - v
             /\ balances'[f] = balances[f] - v
             /\ balances'[t] = unwrap_or(balances, t, 0) + v]_vars

\* C3: a successful transfer(to, value) by c with to # c lowers the balance
\* of c by exactly value, raises the balance of to (absent = 0) by exactly
\* value and emits Transfer(from = c, to, value).
C3_TransferExact ==
    [][LET c == last'.caller
           t == last'.to
           v == last'.value
       IN (IsTokenCall(last', "transfer") /\ last'.result = "Ok" /\ t # c)
          => /\ balances'[c] = balances[c] - v
             /\ balances'[t] = unwrap_or(balances, t, 0) + v
             /\ last'.events = <<Transfer(c, t, v)>>]_vars

\* C10 as stated: transfer_from panics exactly when no allowance entry exists
\* for (from, c); otherwise InsufficientAllowance if allowance < value;
\* otherwise InsufficientBalance if the balance of from < value; otherwise Ok.
C10_Outcomes ==
    [][LET c == last'.caller
           f == last'.from
           v == last'.value
       IN IsTokenCall(last', "transfer_from")
          => last'.result =
                IF ~contains(allowances, <<f, c>>) THEN "Panic"
                ELSE IF allowances[<<f, c>>] < v THEN "InsufficientAllowance"
                ELSE IF unwrap_or(balances, f, 0) < v THEN "InsufficientBalance"
                ELSE "Ok"]_vars

\* C10 amended: transfer_from panics when no allowance entry exists for
\* (from, c); otherwise InsufficientAllowance if allowance < value; otherwise
\* it panics when from has no balance entry; otherwise InsufficientBalance if
\* the balance of from < value; otherwise Ok.
C10_OutcomesAmended ==
    [][LET c == last'.caller
           f == last'.from
           v == last'.value
       IN IsTokenCall(last', "transfer_from")
          => last'.result =
                IF ~contains(allowances, <<f, c>>) THEN "Panic"
                ELSE IF allowances[<<f, c>>] < v THEN "InsufficientAllowance"
                ELSE IF ~contains(balances, f) THEN "Panic"
                ELSE IF balances[f] < v THEN "InsufficientBalance"
                ELSE "Ok"]_vars

\* A transfer_from that panicked although the caller holds an allowance entry
\* large enough for the value: from has no balance entry.
C10_Witness ==
    /\ last.op = "transfer_from" /\ last.result = "Panic"
    /\ contains(allowances, <<last.from, last.caller>>)
    /\ allowances[<<last.from, last.caller>>] >= last.value
    /\ last.value > 0
    /\ ~contains(balances, last.from)

----------------------------------------------------------------------------
(* Resource Pool                                                           *)

\* C4: withdraw(amount, kind) succeeds whenever resource_levels[kind] >= amount
\* and credits[caller] >= amount, and then leaves resource_levels[kind] and
\* credits[caller] each exactly amount lower.
C4_WithdrawSucceeds ==
    [][LET c == last'.caller
           a == last'.value
           r == last'.resource
       IN (IsMarketCall(last', "withdraw")
              /\ get_resource(r) >= a /\ unwrap_or(credits, c, 0) >= a)
          => /\ last'.result = "Ok"
             /\ level_of(r, food', water', wood') = get_resource(r) - a
             /\ unwrap_or(credits', c, 0) = unwrap_or(credits, c, 0) - a]_vars

\* C5: a transfer, transfer_from or withdraw that returns a business error
\* leaves every balance, allowance, resource level and credit as it was and
\* emits no event.
C5_ErrorsChangeNothing ==
    [][(last'.op \in {"transfer", "transfer_from", "withdraw"}
            /\ last'.result \in BusinessErrors)
        => /\ UNCHANGED <<balances, allowances, food, water, wood, credits>>
           /\ last'.events = <<>>]_vars

\* A withdraw refused with InsufficientCredits from a pool that holds the
\* amount asked for, by a caller with some credit.
C5_Witness ==
    /\ last.op = "withdraw" /\ last.result = "InsufficientCredits"
    /\ get_resource(last.resource) >= last.value
    /\ contains(credits, last.caller) /\ credits[last.caller] > 0

\* C6: withdraw returns InsufficientResources whenever resource_levels[kind]
\* < amount, whatever the credit of the caller, and InsufficientCredits only
\* when resource_levels[kind] >= amount and the credit (absent = 0) < amount.
C6_ResourcesBeforeCredits ==
    [][LET c == last'.caller
           a == last'.value
           r == last'.resource
       IN IsMarketCall(last', "withdraw")
          => /\ get_resource(r) < a => last'.result = "InsufficientResources"
             /\ last'.result = "InsufficientCredits"
                  => (get_resource(r) >= a /\ unwrap_or(credits, c, 0) < a)]_vars

\* A withdraw refused with InsufficientResources although the caller has no
\* credit for the amount either.
C6_Witness ==
    /\ last.op = "withdraw" /\ last.result = "InsufficientResources"
    /\ unwrap_or(credits, last.caller, 0) < last.value
    /\ get_resource(last.resource) < last.value

\* C7: a successful contribute(amount, kind) by c leaves resource_levels[kind]
\* and credits[c] (absent = 0) each exactly amount higher, and its
\* ContributionReceived event carries c, amount, kind and the two results.
C7_ContributeExact ==
    [][LET c == last'.caller
           a == last'.value
           r == last'.resource
       IN (IsMarketCall(last', "contribute") /\ last'.result = "Ok")
          => /\ level_of(r, food', water', wood') = get_resource(r) + a
             /\ credits'[c] = unwrap_or(credits, c, 0) + a
             /\ last'.events =
                  <<ContributionReceived(c, a, r, level_of(r, food', water', wood'),
                                         credits'[c])>>]_vars

\* C8: contribute(amount, kind) always returns ok, with resource_levels[kind]
\* and credits[caller] each the saturating sum of the old value and amount.
C8_ContributeSaturates ==
    [][LET c == last'.caller
           a == last'.value
           r == last'.resource
       IN IsMarketCall(last', "contribute")
          => /\ last'.result = "Ok"
             /\ level_of(r, food', water', wood')
                  = saturating_add_u64(get_resource(r), a)
             /\ unwrap_or(credits', c, 0)
                  = saturating_add_u64(unwrap_or(credits, c, 0), a)]_vars

\* C9: in every state reachable from construction, the credit of every
\* account is at most the amounts it successfully contributed minus the
\* amounts it successfully withdrew, and is never negative.
C9_CreditsWithinHistory ==
    \A a \in Account :
        /\ unwrap_or(credits, a, 0) <= net[a]
        /\ unwrap_or(credits, a, 0) >= 0

\* An account whose credit is strictly below its history (its credit was
\* clamped) and that has just withdrawn.
C9_Witness ==
    /\ last.op = "withdraw" /\ last.result = "Ok" /\ last.value > 0
    /\ contains(credits, last.caller)
    /\ credits[last.caller] < net[last.caller]
    /\ credits[last.caller] > 0

----------------------------------------------------------------------------
(* Fungible Ledger: allowances                                             *)

\* C11: approve(spender, amount) by c always succeeds, whatever the balance
\* of c and whether or not an entry exists; afterwards allowances[(c, spender)]
\* is exactly amount, no other allowance and no balance has changed, and no
\* event has been emitted.
C11_ApproveOverwrites ==
    [][LET c == last'.caller
           s == last'.to
           v == last'.value
       IN IsTokenCall(last', "approve")
          => /\ last'.result = "Ok"
             /\ allowances' = insert(allowances, <<c, s>>, v)
             /\ allowances'[<<c, s>>] = v
             /\ \A k \in DOMAIN allowances :
                    k # <<c, s>> => allowances'[k] = allowances[k]
             /\ balances' = balances
             /\ last'.events = <<>>]_vars

\* An approve by a caller that has no balance entry, below the largest
\* allowance, while another owner's allowance stands beside it.
C11_Witness ==
    /\ last.op = "approve" /\ last.result = "Ok"
    /\ ~contains(balances, last.caller)
    /\ allowances[<<last.caller, last.to>>] = last.value
    /\ last.value < U128_MAX
    /\ \E k \in DOMAIN allowances : k # <<last.caller, last.to>> /\ allowances[k] > 0

\* C12: increase_allowance(spender, by) and decrease_allowance(spender, by)
\* by c panic and change nothing when there is no entry for (c, spender);
\* otherwise they set it to min(prev + by, u128::MAX) and max(prev - by, 0).
C12_AllowanceAdjustSaturates ==
    [][LET k == <<last'.caller, last'.to>>
           by == last'.value
       IN /\ IsTokenCall(last', "increase_allowance")
             => IF ~contains(allowances, k)
                THEN last'.result = "Panic" /\ UNCHANGED tokenVars
                ELSE /\ last'.result = "Ok"
                     /\ allowances'[k] =
                          (IF allowances[k] + by > U128_MAX THEN U128_MAX
                           ELSE allowances[k] + by)
                     /\ allowances'[k] <= U128_MAX
          /\ IsTokenCall(last', "decrease_allowance")
             => IF ~contains(allowances, k)
                THEN last'.result = "Panic" /\ UNCHANGED tokenVars
                ELSE /\ last'.result = "Ok"
                     /\ allowances'[k] =
                          (IF allowances[k] - by < 0 THEN 0
                           ELSE allowances[k] - by)
                     /\ allowances'[k] >= 0]_vars

\* An increase_allowance by the largest amount that left the entry at the
\* largest value.
C12_Witness ==
    /\ last.op = "increase_allowance" /\ last.result = "Ok"
    /\ last.value = U128_MAX
    /\ allowances[<<last.caller, last.to>>] = U128_MAX

----------------------------------------------------------------------------
(* Events of the successful calls; frame of the market messages            *)

\* C13: the ResourceWithdrawn event of a successful withdraw(amount, kind)
\* carries the caller, amount, kind, resource_levels[kind] as stored after
\* the withdrawal and credits[caller] as stored after the withdrawal.
C13_WithdrawnEventCarriesStored ==
    [][LET c == last'.caller
           a == last'.value
           r == last'.resource
       IN (IsMarketCall(last', "withdraw") /\ last'.result = "Ok")
          => last'.events =
               <<ResourceWithdrawn(c, a, r, level_of(r, food', water', wood'),
                                   credits'[c])>>]_vars

\* C14: a successful transfer_from(from, to, value) by c emits exactly one
\* event, Approval(owner = from, spender = c) with the allowance as it is
\* after the call, and no Transfer event.
C14_ApprovalCarriesNewAllowance ==
    [][LET c == last'.caller
           f == last'.from
       IN (IsTokenCall(last', "transfer_from") /\ last'.result = "Ok")
          => last'.events = <<Approval(f, c, allowances'[<<f, c>>])>>]_vars

\* C15: a contribute or withdraw of a kind by c changes at most the level of
\* that kind and the credit of c; the other two levels and the credits of
\* every other account stay as they were, and no level is negative.
C15_MarketFrame ==
    [][LET c == last'.caller
           r == last'.resource
       IN (IsMarketCall(last', "contribute") \/ IsMarketCall(last', "withdraw"))
          => /\ \A k \in Resource \ {r} :
                    level_of(k, food', water', wood') = get_resource(k)
             /\ \A a \in Account \ {c} :
                    /\ contains(credits', a) <=> contains(credits, a)
                    /\ unwrap_or(credits', a, 0) = unwrap_or(credits, a, 0)
             /\ food' >= 0 /\ water' >= 0 /\ wood' >= 0]_vars

\* A successful withdrawal of Water that lowered it while Food and Wood and
\* the credit of the other account stand untouched beside it.
C15_Witness ==
    /\ last.op = "withdraw" /\ last.result = "Ok" /\ last.value > 0
    /\ last.resource = "Water"
    /\ food > 0 /\ wood > 0 /\ water < U64_MAX
    /\ \E a \in Account \ {last.caller} : contains(credits, a) /\ credits[a] > 0

----------------------------------------------------------------------------
(* The fresh ledger, faults, and who may move what                         *)

\* C16: from a freshly constructed Token, after any sequence of messages the
\* balances mapping has no entry: balance_of panics for every account, every
\* transfer panics and no transfer_from succeeds.
C16_FreshLedgerStaysEmpty ==
    /\ DOMAIN balances = {}
    /\ \A a \in Account : balance_of(a).panic
    /\ last.op = "transfer" => last.result = "Panic"
    /\ last.op = "transfer_from" => last.result # "Ok"

\* A transfer_from by a spender that holds an allowance entry, which still
\* did not succeed on the fresh ledger.
C16_Witness ==
    /\ last.op = "transfer_from" /\ last.result = "Panic"
    /\ contains(allowances, <<last.from, last.caller>>)
    /\ allowances[<<last.from, last.caller>>] > 0
    /\ DOMAIN balances = {}

\* C17: in every message of both contracts a panic is raised before the
\* first write to a balance, allowance, level or credit and before any event:
\* no call writes and then aborts.
C17_FaultsBeforeWrites ==
    last.result = "Panic" => (~last.dirty /\ last.events = <<>>)

\* C18: the balance of an account a becomes lower only by a successful
\* transfer called by a, or by a successful transfer_from with from = a whose
\* caller held allowances[(a, c)] >= value before the call.
C18_NoUnauthorizedWithdrawal ==
    [][\A a \in DOMAIN balances :
          balances'[a] < balances[a]
          => \/ /\ IsTokenCall(last', "transfer") /\ last'.result = "Ok"
                /\ last'.caller = a
             \/ /\ IsTokenCall(last', "transfer_from") /\ last'.result = "Ok"
                /\ last'.from = a
                /\ contains(allowances, <<a, last'.caller>>)
                /\ allowances[<<a, last'.caller>>] >= last'.value]_vars

\* C19: allowances[(o, s)] is created or changed only by approve,
\* increase_allowance or decrease_allowance called by o with spender s, or by
\* a successful transfer_from(from = o) called by s, which only lowers it; no
\* entry is ever removed.
C19_AllowanceAuthority ==
    [][/\ DOMAIN allowances \subseteq DOMAIN allowances'
       /\ \A k \in DOMAIN allowances' :
            (~contains(allowances, k) \/ allowances'[k] # allowances[k])
            => \/ /\ last'.op \in {"approve", "increase_allowance",
                                   "decrease_allowance"}
                  /\ last'.result = "Ok"
                  /\ k = <<last'.caller, last'.to>>
               \/ /\ IsTokenCall(last', "transfer_from") /\ last'.result = "Ok"
                  /\ k = <<last'.from, last'.caller>>
                  /\ contains(allowances, k)
                  /\ allowances'[k] < allowances[k]]_vars

\* A successful transfer_from of a positive value, which left the allowance
\* of its caller below the largest value.
C19_Witness ==
    /\ last.op = "transfer_from" /\ last.result = "Ok" /\ last.value > 0
    /\ last.from # last.caller
    /\ allowances[<<last.from, last.caller>>] < U128_MAX

----------------------------------------------------------------------------
(* Solvency of the pool                                                    *)

\* C20: in every state reachable from new(food0, water0, wood0), the sum of
\* the credits of all accounts plus food0 + water0 + wood0 is at most
\* food + water + wood.
C20_PoolSolvency ==
    SumCredits(credits) + initial_stock <= food + water + wood

====
